---- MODULE Spec2Model ----
(***************************************************************************)
(* A model of the Sequencer of bsync (src/src/sequence.js).                *)
(*                                                                         *)
(* The Sequencer owns a stage list (`sequence`), initial arguments         *)
(* (`args`) and a terminal callback (`callback`).  go() dispatches stage   *)
(* 0; every completion of a task runs handlePartialSequenceComplete,       *)
(* which merges the task's result into pendingData and, when the fan-in    *)
(* counter is zero, runs handleSequenceFunctionComplete, which either      *)
(* delivers the terminal callback or dispatches the next stage.            *)
(*                                                                         *)
(* JavaScript is single threaded: a task that completes synchronously      *)
(* runs the completion handler inside the dispatch loop of                 *)
(* processNextSequenceFunction, so the model keeps the call stack of the   *)
(* dispatch loops (`stack`).  Other code (a later completion, an external  *)
(* terminate() call) runs when that stack is empty or inside the body of   *)
(* the task that is running.                                               *)
(*                                                                         *)
(* construct() stores and validates the caller's values; the               *)
(* specifications Spec, SpecMulti and SpecErr start from the state it      *)
(* leaves for a valid configuration, SpecConstruct starts before it.       *)
(*                                                                         *)
(* Stage numbers are the 0-based numbers of the code; TLA+ sequences are   *)
(* 1-based, so stage i is sequence[i + 1].  Task numbers inside a stage    *)
(* (fIdx) are 1-based in the model.                                        *)
(***************************************************************************)
EXTENDS Integers, Sequences, FiniteSets, TLC

\* ---------------------------------------------------------------- bounds
MaxStages == 3
MaxGroup == 2
MaxExtraCompletions == 1

\* ------------------------------------------------------- JavaScript values
\* A mapping (plain object) is a function from key strings to values.
EmptyMap == [k \in {} |-> 0]

\* `for (prop in over) base[prop] = over[prop]`
Overlay(base, over) ==
    [k \in (DOMAIN base) \cup (DOMAIN over) |->
        IF k \in DOMAIN over THEN over[k] ELSE base[k]]

\* The value of opts.sequence: the reference to the Sequencer itself.
SequencerRef == 0 - 1

\* pendingErr is never initialised by construct(): it starts undefined.
Undefined == [type |-> "undefined", val |-> ""]
Str(s) == [type |-> "string", val |-> s]

\* String conversion performed by `+` with a string operand.
StringOf(v) == IF v.type = "undefined" THEN "undefined" ELSE v.val

Truthy(v) == v.type = "string" /\ v.val # ""

\* ------------------------------------------------------------------ tasks
\* A task is an opaque callable; the model keeps what it hands to its
\* completion callback: err ("" stands for a falsy error) and data.
func1 == [data |-> ("func1" :> 1), err |-> ""]
func2 == [data |-> ("func2" :> 2), err |-> ""]
func3 == [data |-> ("func3" :> 3), err |-> ""]
\* a task whose result re-uses a key of the initial arguments
funcArg == [data |-> ("arg1" :> 7), err |-> ""]

Funcs == <<funcArg, func1, func2, func3>>

\* A stage is a single task or an array of tasks.
Single(t) == [isArray |-> FALSE, tasks |-> <<t>>]
Group(ts) == [isArray |-> TRUE, tasks |-> ts]

\* The shape of a stage list: per stage, 0 for a single task and n >= 2 for
\* an array of n tasks.
StageShapes == {0} \cup 2..MaxGroup
ShapePool == UNION {[1..n -> StageShapes] : n \in 1..MaxStages}

Size(k) == IF k = 0 THEN 1 ELSE k

\* the number of tasks in the first n stages of a shape
RECURSIVE TasksBefore(_, _)
TasksBefore(shape, n) ==
    IF n = 0 THEN 0 ELSE TasksBefore(shape, n - 1) + Size(shape[n])

\* The p-th task of a stage list (counting from 0 through all stages) is
\* Funcs taken in rotation.
FuncAt(p) == Funcs[(p % Len(Funcs)) + 1]

Build(shape) ==
    [s \in 1..Len(shape) |->
        LET first == TasksBefore(shape, s - 1)
        IN IF shape[s] = 0
           THEN Single(FuncAt(first))
           ELSE Group([f \in 1..shape[s] |-> FuncAt(first + f - 1)])]

SequencePool == {Build(shape) : shape \in ShapePool}

\* tasks that report an error: callback("e1", {funcErr1: 1}) and callback("e2")
funcErr1 == [data |-> ("funcErr1" :> 1), err |-> "e1"]
funcErr2 == [data |-> EmptyMap, err |-> "e2"]

ErrFuncs == <<func1, funcErr1, funcErr2, func2, func3>>

\* Stage lists whose tasks are ErrFuncs taken in rotation, starting with
\* func1 (first = 0) or with funcErr1 (first = 1).
ErrFuncAt(p, first) == ErrFuncs[((p + first) % Len(ErrFuncs)) + 1]

BuildErr(shape, first) ==
    [s \in 1..Len(shape) |->
        LET before == TasksBefore(shape, s - 1)
        IN IF shape[s] = 0
           THEN Single(ErrFuncAt(before, first))
           ELSE Group([f \in 1..shape[s] |-> ErrFuncAt(before + f - 1, first)])]

ErrSequencePool == {BuildErr(shape, first) : shape \in ShapePool, first \in {0, 1}}

\* tasks whose results share the key `shared`, and a task whose result has
\* the key `sequence`
funcK1 == [data |-> ("shared" :> 1 @@ "k1" :> 1), err |-> ""]
funcK2 == [data |-> ("shared" :> 2 @@ "k2" :> 2), err |-> ""]
funcSeq == [data |-> ("sequence" :> 9), err |-> ""]

KeyFuncs == <<funcK1, funcK2, funcErr1, funcErr2, funcSeq>>

\* Stage lists whose tasks are KeyFuncs taken in rotation, starting with
\* funcK1 (first = 0) or with funcErr1 (first = 2).
KeyFuncAt(p, first) == KeyFuncs[((p + first) % Len(KeyFuncs)) + 1]

BuildKeys(shape, first) ==
    [s \in 1..Len(shape) |->
        LET before == TasksBefore(shape, s - 1)
        IN IF shape[s] = 0
           THEN Single(KeyFuncAt(before, first))
           ELSE Group([f \in 1..shape[s] |-> KeyFuncAt(before + f - 1, first)])]

KeySequencePool == {BuildKeys(shape, first) : shape \in ShapePool, first \in {0, 2}}

\* The property name of the i-th element of an array (counting from 1).
IndexKey(i) == CASE i = 1 -> "0" [] i = 2 -> "1" [] OTHER -> "2"

\* `for (var prop in data)` over a value that is no plain mapping: an array
\* is enumerated by its indices, a number has no enumerable property.
ForIn(v) ==
    IF v.type = "array"
    THEN LET n == Len(v.val)
         IN [k \in {IndexKey(i) : i \in 1..n} |->
                v.val[CHOOSE i \in 1..n : IndexKey(i) = k]]
    ELSE EmptyMap

\* tasks whose result is no plain mapping: callback(null, [8, 9]) and
\* callback(null, 5); `data` holds what the for-in loop enumerates
funcArray == [data |-> ForIn([type |-> "array", val |-> <<8, 9>>]), err |-> "",
              type |-> "array"]
funcNumber == [data |-> ForIn([type |-> "number", val |-> 5]), err |-> "",
               type |-> "number"]

\* the type of the value a task reports as its result
ResultType(t) == IF "type" \in DOMAIN t THEN t.type ELSE "mapping"

DataFuncs == <<func1, funcArray, funcNumber, func2>>

\* Stage lists whose tasks are DataFuncs taken in rotation, starting with
\* func1 (first = 0) or with funcArray (first = 1).
DataFuncAt(p, first) == DataFuncs[((p + first) % Len(DataFuncs)) + 1]

BuildData(shape, first) ==
    [s \in 1..Len(shape) |->
        LET before == TasksBefore(shape, s - 1)
        IN IF shape[s] = 0
           THEN Single(DataFuncAt(before, first))
           ELSE Group([f \in 1..shape[s] |-> DataFuncAt(before + f - 1, first)])]

DataSequencePool == {BuildData(shape, first) : shape \in ShapePool, first \in {0, 1}}

NoArgs == [present |-> FALSE, map |-> EmptyMap]
\* initial arguments {sequence: 5}
SequenceArgs == [present |-> TRUE, map |-> ("sequence" :> 5)]
ArgsPool == {NoArgs, [present |-> TRUE, map |-> ("arg1" :> 1 @@ "arg2" :> 2)]}

VARIABLES
    sequence,             \* this.sequence: the stage list
    args,                 \* this.args
    callback,             \* TRUE iff this.callback is a function
    currentSequenceIdx,   \* this.currentSequenceIdx
    pendingData,          \* this.pendingData
    pendingErr,           \* this.pendingErr
    concurrentFunctions,  \* this.concurrentFunctions
    stack,                \* dispatch loops of processNextSequenceFunction in progress
    started,              \* go() has been called
    fault,                \* go() raised a TypeError
    calls,                \* history: task invocations [stage, fIdx, opts]
    completions,          \* history: completions[i] counts the completion
                          \*   callbacks made by the invocation calls[i]
    results,              \* history: results[s + 1] is the results of stage s
                          \*   merged in the order they arrived
    allSync,              \* history: every completion was made by a task inside its own body
    lastWriter,           \* history: lastWriter[k] is the invocation whose completion
                          \*   wrote the result key k most recently
    callbackLog,          \* history: terminal callback invocations [err, data]
    terminatedAt,         \* history: Len(calls) at the first terminate(), or -1
    terminatedStage,      \* history: currentSequenceIdx at the first terminate(), or -1
    terminatedBy,         \* history: the invocation whose body made the first
                          \*   terminate() before completing, or 0
    config,               \* the values handed to construct()
    constructed,          \* construct() has run with the caller's values
    thrown,               \* construct() raised the fatal exception
    startupErrorText,     \* this.startupErrorText ("" stands for null)
    sequenceKind          \* what this.sequence holds: "array", "function" or "null"

vars == <<sequence, args, callback, currentSequenceIdx, pendingData, pendingErr,
          concurrentFunctions, stack, started, fault, calls, completions,
          results, allSync, lastWriter, callbackLog, terminatedAt, terminatedStage,
          terminatedBy, config, constructed, thrown, startupErrorText,
          sequenceKind>>

\* the fields written by construct() only
constructVars == <<config, constructed, thrown, startupErrorText, sequenceKind>>

\* ------------------------------------------------------------ construct()
Init ==
    /\ sequence \in SequencePool
    /\ args \in ArgsPool
    /\ callback \in BOOLEAN
    /\ currentSequenceIdx = 0
    /\ pendingData = EmptyMap
    /\ pendingErr = Undefined
    /\ concurrentFunctions = 0
    /\ stack = <<>>
    /\ started = FALSE
    /\ fault = FALSE
    /\ calls = <<>>
    /\ completions = <<>>
    /\ results = [s \in 1..Len(sequence) |-> EmptyMap]
    /\ allSync = TRUE
    /\ lastWriter = EmptyMap
    /\ callbackLog = <<>>
    /\ terminatedAt = 0 - 1
    /\ terminatedStage = 0 - 1
    /\ terminatedBy = 0
    /\ config = [form |-> "object", seq |-> "array", stages |-> sequence,
                 args |-> IF args.present THEN "mapping" ELSE "absent",
                 cb |-> IF callback THEN "function" ELSE "absent",
                 extra |-> FALSE]
    /\ constructed = TRUE
    /\ thrown = FALSE
    /\ startupErrorText = ""
    /\ sequenceKind = "array"

\* construct() has run on a valid configuration without initial arguments
\* whose tasks may report errors
InitErr ==
    /\ sequence \in ErrSequencePool
    /\ args = NoArgs
    /\ callback \in BOOLEAN
    /\ currentSequenceIdx = 0
    /\ pendingData = EmptyMap
    /\ pendingErr = Undefined
    /\ concurrentFunctions = 0
    /\ stack = <<>>
    /\ started = FALSE
    /\ fault = FALSE
    /\ calls = <<>>
    /\ completions = <<>>
    /\ results = [s \in 1..Len(sequence) |-> EmptyMap]
    /\ allSync = TRUE
    /\ lastWriter = EmptyMap
    /\ callbackLog = <<>>
    /\ terminatedAt = 0 - 1
    /\ terminatedStage = 0 - 1
    /\ terminatedBy = 0
    /\ config = [form |-> "object", seq |-> "array", stages |-> sequence,
                 args |-> "absent",
                 cb |-> IF callback THEN "function" ELSE "absent",
                 extra |-> FALSE]
    /\ constructed = TRUE
    /\ thrown = FALSE
    /\ startupErrorText = ""
    /\ sequenceKind = "array"

\* construct() has run on a valid configuration with a callback, some of
\* whose tasks report a result that is no plain mapping
InitData ==
    /\ sequence \in DataSequencePool
    /\ args = NoArgs
    /\ callback = TRUE
    /\ currentSequenceIdx = 0
    /\ pendingData = EmptyMap
    /\ pendingErr = Undefined
    /\ concurrentFunctions = 0
    /\ stack = <<>>
    /\ started = FALSE
    /\ fault = FALSE
    /\ calls = <<>>
    /\ completions = <<>>
    /\ results = [s \in 1..Len(sequence) |-> EmptyMap]
    /\ allSync = TRUE
    /\ lastWriter = EmptyMap
    /\ callbackLog = <<>>
    /\ terminatedAt = 0 - 1
    /\ terminatedStage = 0 - 1
    /\ terminatedBy = 0
    /\ config = [form |-> "object", seq |-> "array", stages |-> sequence,
                 args |-> "absent",
                 cb |-> IF callback THEN "function" ELSE "absent",
                 extra |-> FALSE]
    /\ constructed = TRUE
    /\ thrown = FALSE
    /\ startupErrorText = ""
    /\ sequenceKind = "array"

\* construct() has run on a valid configuration with a callback whose tasks
\* report colliding result keys, with or without initial arguments
InitKeys ==
    /\ sequence \in KeySequencePool
    /\ args \in {NoArgs, SequenceArgs}
    /\ callback = TRUE
    /\ currentSequenceIdx = 0
    /\ pendingData = EmptyMap
    /\ pendingErr = Undefined
    /\ concurrentFunctions = 0
    /\ stack = <<>>
    /\ started = FALSE
    /\ fault = FALSE
    /\ calls = <<>>
    /\ completions = <<>>
    /\ results = [s \in 1..Len(sequence) |-> EmptyMap]
    /\ allSync = TRUE
    /\ lastWriter = EmptyMap
    /\ callbackLog = <<>>
    /\ terminatedAt = 0 - 1
    /\ terminatedStage = 0 - 1
    /\ terminatedBy = 0
    /\ config = [form |-> "object", seq |-> "array", stages |-> sequence,
                 args |-> IF args.present THEN "mapping" ELSE "absent",
                 cb |-> IF callback THEN "function" ELSE "absent",
                 extra |-> FALSE]
    /\ constructed = TRUE
    /\ thrown = FALSE
    /\ startupErrorText = ""
    /\ sequenceKind = "array"

\* ------------------------------------------------- construct() from values
\* The values a caller may hand over.  For the terminal callback: nothing
\* (undefined or null), a falsy value that is no function (0, "", false), a
\* truthy value that is no function, or a function.  For the arguments:
\* nothing, a plain mapping {arg1: 1, arg2: 2}, or the array [9].  For the
\* stage list: nothing, the number 5, an array of stages, or the bare task
\* func1.
CallbackValues == {"absent", "falsy", "object", "function"}
ArgsValues == {"absent", "mapping", "array"}
SequenceValues == {"absent", "number", "array", "function"}

\* the arrays handed over as stage lists; a stage may be the empty array
ConfigStages ==
    {<<>>, <<Single(func1)>>, <<Single(func1), Group(<<func2, func3>>)>>,
     <<Group(<<>>), Single(func1)>>, <<Single(func1), Group(<<>>)>>}

\* sequence() called without any value
NoArguments ==
    [form |-> "none", seq |-> "absent", stages |-> <<>>, args |-> "absent",
     cb |-> "absent", extra |-> FALSE]

\* A call hands over one configuration object (form "object") or positional
\* values (form "positional", `extra` when there are more than three).
ConfigPool ==
    {c \in [form : {"object", "positional"}, seq : SequenceValues,
            stages : ConfigStages, args : ArgsValues, cb : CallbackValues,
            extra : BOOLEAN] :
        /\ c.seq # "array" => c.stages = <<>>
        /\ c.form = "object" => ~c.extra}
    \cup {NoArguments}

TruthyValue(v) == v \notin {"absent", "falsy"}
isArray(v) == v = "array"
isFunction(v) == v = "function"
isPlainObject(v) == v = "mapping"

Null == [type |-> "null", val |-> ""]

InvalidSequence == "Invalid sequence passed to Sequencer.construct."
InvalidArgs == "Invalid function args passed to Sequencer.construct."
TooManyArguments == "No more than 3 arguments can be passed to Sequencer.construct."
NullArguments == "arguments passed to Sequencer.constructor were null."

\* what this.sequence holds when the value v is stored in it
KindOf(v) ==
    CASE v = "array" -> "array"
      [] v = "function" -> "function"
      [] v = "absent" -> "null"
      [] OTHER -> "other"

\* this.args when the truthy value v is stored in it; the keys of an array
\* are its indices
StoredArgs(v) ==
    CASE v = "mapping" -> [present |-> TRUE, map |-> ("arg1" :> 1 @@ "arg2" :> 2)]
      [] v = "array" -> [present |-> TRUE, map |-> ("0" :> 9)]
      [] OTHER -> NoArgs

\* the fields construct() resets before it looks at its arguments
Reset(text) ==
    [sequence |-> <<>>, kind |-> "array", args |-> NoArgs, callback |-> FALSE,
     text |-> text, thrown |-> FALSE]

\* variant: a callback that is no function is dropped instead of rejected
objConstructorLenient(argObj) ==
    LET stored == [Reset("") EXCEPT
                     !.sequence = argObj.stages,
                     !.kind = KindOf(argObj.seq),
                     !.args = StoredArgs(argObj.args),
                     !.callback = isFunction(argObj.cb)]
    IN IF ~(isArray(argObj.seq) \/ isFunction(argObj.seq))
       THEN [stored EXCEPT !.text = InvalidSequence]
       ELSE IF TruthyValue(argObj.args) /\ ~isPlainObject(argObj.args)
       THEN [stored EXCEPT !.text = InvalidArgs]
       ELSE stored

objConstructor(argObj) ==
    LET stored == [Reset("") EXCEPT
                     !.sequence = argObj.stages,
                     !.kind = KindOf(argObj.seq),
                     !.args = StoredArgs(argObj.args),
                     !.callback = TruthyValue(argObj.cb)]
    IN IF TruthyValue(argObj.cb) /\ ~isFunction(argObj.cb)
       THEN [stored EXCEPT !.thrown = TRUE]
       ELSE IF ~(isArray(argObj.seq) \/ isFunction(argObj.seq))
       THEN [stored EXCEPT !.text = InvalidSequence]
       ELSE IF TruthyValue(argObj.args) /\ ~isPlainObject(argObj.args)
       THEN [stored EXCEPT !.text = InvalidArgs]
       ELSE stored

\* `arguments[i]` inside arrConstructor(argArray): the method's own arguments
\* object, which holds argArray alone
OwnArgument(i) == IF i = 0 THEN "argArray" ELSE "absent"

arrConstructor(argArray, text) ==
    LET r0 == Reset(IF text = "" /\ argArray.extra THEN TooManyArguments ELSE text)
        cb == OwnArgument(2)
        a == OwnArgument(1)
        r1 == IF TruthyValue(cb) THEN [r0 EXCEPT !.callback = TRUE] ELSE r0
    IN IF TruthyValue(cb) /\ ~isFunction(cb)
       THEN [r0 EXCEPT !.thrown = TRUE]
       ELSE IF r1.text # ""
       THEN r1
       ELSE IF ~(isArray(argArray.seq) \/ isFunction(argArray.seq))
       THEN [r1 EXCEPT !.text = InvalidSequence]
       ELSE LET r2 == [r1 EXCEPT !.sequence = argArray.stages,
                                 !.kind = KindOf(argArray.seq)]
            IN IF ~TruthyValue(a) THEN r2
               ELSE IF isPlainObject(a) THEN [r2 EXCEPT !.args = StoredArgs(a)]
               ELSE [r2 EXCEPT !.text = InvalidArgs]

\* the state after `new Sequencer()`: construct() ran without arguments
\* while isConstructing, and the caller's values are still to be applied
InitConstruct ==
    /\ config \in ConfigPool
    /\ constructed = FALSE
    /\ thrown = FALSE
    /\ startupErrorText = ""
    /\ sequence = <<>>
    /\ sequenceKind = "array"
    /\ args = NoArgs
    /\ callback = FALSE
    /\ currentSequenceIdx = 0
    /\ pendingData = EmptyMap
    /\ pendingErr = Undefined
    /\ concurrentFunctions = 0
    /\ stack = <<>>
    /\ started = FALSE
    /\ fault = FALSE
    /\ calls = <<>>
    /\ completions = <<>>
    /\ results = <<>>
    /\ allSync = TRUE
    /\ lastWriter = EmptyMap
    /\ callbackLog = <<>>
    /\ terminatedAt = 0 - 1
    /\ terminatedStage = 0 - 1
    /\ terminatedBy = 0

\* ------------------------------------------------- pieces of the handlers
\* The Sequencer fields a handler reads and writes, as one record.
State ==
    [idx |-> currentSequenceIdx, pd |-> pendingData, pe |-> pendingErr,
     cf |-> concurrentFunctions, stk |-> stack, cbl |-> callbackLog, fault |-> fault,
     ar |-> args]

\* variant: the initial arguments are overlaid last and win a key collision
BuildOptsArgsWin(pd) ==
    Overlay(Overlay("sequence" :> SequencerRef, pd),
            IF args.present THEN args.map ELSE EmptyMap)

\* variant: the initial arguments are left out once a stage has results
BuildOptsDropArgs(pd) ==
    Overlay(Overlay("sequence" :> SequencerRef,
                    IF args.present /\ DOMAIN pd = {} THEN args.map ELSE EmptyMap),
            pd)

\* opts = {sequence: this}, then every key of args, then every key of pendingData
BuildOpts(pd) ==
    Overlay(Overlay("sequence" :> SequencerRef,
                    IF args.present THEN args.map ELSE EmptyMap),
            pd)

\* variant: opts is this.args itself, so the overlay writes into it
ArgsAfterOverlayAliased(ar, pd) ==
    IF ar.present THEN [ar EXCEPT !.map = Overlay(ar.map, pd)] ELSE ar

\* `var opts = {...}; opts[prop] = ...`: the overlay writes into the new
\* object opts; this.args is only read
ArgsAfterOverlay(ar, pd) == ar

\* variant: pendingData is not cleared and accumulates across stages
KeptPendingData(pd) == pd

\* `this.pendingData = {}` after the overlay
ClearedPendingData(pd) == EmptyMap

\* variant: the counter starts one short of the group's size
SetCounterShort(w, cf) == IF w.isArray THEN Len(w.tasks) - 1 ELSE cf

\* variant: the counter starts one above the group's size
SetCounterOver(w, cf) == IF w.isArray THEN Len(w.tasks) + 1 ELSE cf

\* `if (Array.isArray(whatToExecute)) this.concurrentFunctions = whatToExecute.length`
SetCounter(w, cf) == IF w.isArray THEN Len(w.tasks) ELSE cf

\* variant: the context is the live accumulator laid over opts
TaskContextShared(opts, pd) == Overlay(opts, pd)

\* the context handed to a task: the opts object built before the loop
TaskContext(opts, pd) == opts

\* variant: the counter is decremented without the test for 0
DecrementCounterNoFloor(cf) == cf - 1

\* variant: the counter is never decremented
DecrementCounterStuck(cf) == cf

\* `if (this.concurrentFunctions) this.concurrentFunctions--`
DecrementCounter(cf) == IF cf # 0 THEN cf - 1 ELSE cf

\* variant: a result replaces the accumulator instead of merging into it
MergeDataReplace(pd, data) == data

\* variant: a key that already has a value keeps it
MergeDataKeepFirst(pd, data) == Overlay(data, pd)

\* `for (var prop in data) this.pendingData[prop] = data[prop]`
MergeData(pd, data) == Overlay(pd, data)

\* variant: every completion overwrites the pending error with its own
AccumulateErrLatest(pe, err) == IF err = "" THEN Undefined ELSE Str(err)

\* `if (err) this.pendingErr = this.pendingErr + " " + err || err`
AccumulateErr(pe, err) ==
    IF err = "" THEN pe
    ELSE LET s == StringOf(pe) \o " " \o err
         IN IF s # "" THEN Str(s) ELSE Str(err)

\* variant: every completion is taken for the last one of its stage
StageDoneAlways(cf) == TRUE

\* `if (this.concurrentFunctions == 0)`
StageDone(cf) == cf = 0

\* variant: the run is taken to be over one stage early
IsLastStageEarly(idx) == Len(sequence) <= idx + 2

\* variant: only the index of the last stage itself ends the run
IsLastStageExact(idx) == Len(sequence) = idx + 1

\* `if (this.sequence.length <= (this.currentSequenceIdx + 1))`
IsLastStage(idx) == Len(sequence) <= idx + 1

\* processNextSequenceFunction up to its dispatch loop: builds opts, clears
\* pendingData, sets the counter and opens the loop over the stage's tasks.
\* With the index past the end, or with this.sequence a function or null,
\* whatToExecute is undefined (reading an element of null raises at once)
\* and calling it raises a TypeError.
processNextSequenceFunction(st) ==
    LET opts == BuildOpts(st.pd)
        cleared == [st EXCEPT !.pd = ClearedPendingData(st.pd),
                              !.ar = ArgsAfterOverlay(st.ar, st.pd)]
    IN IF sequenceKind # "array" \/ st.idx >= Len(sequence)
       THEN [cleared EXCEPT !.fault = TRUE]
       ELSE LET w == sequence[st.idx + 1]
            IN [cleared EXCEPT
                  !.cf = SetCounter(w, st.cf),
                  !.stk = IF Len(w.tasks) = 0 THEN st.stk
                          ELSE Append(st.stk, [stage |-> st.idx, next |-> 1, call |-> 0,
                                               opts |-> opts, running |-> FALSE])]

\* variant: a stage that ends with an error pending ends the run
handleSequenceFunctionCompleteStopOnErr(st) ==
    IF IsLastStage(st.idx) \/ Truthy(st.pe)
    THEN IF callback
         THEN [st EXCEPT !.cbl = Append(st.cbl, [err |-> st.pe, data |-> st.pd])]
         ELSE st
    ELSE processNextSequenceFunction([st EXCEPT !.idx = st.idx + 1])

\* variant: the index is advanced by two
handleSequenceFunctionCompleteSkip(st) ==
    IF IsLastStage(st.idx)
    THEN IF callback
         THEN [st EXCEPT !.cbl = Append(st.cbl, [err |-> st.pe, data |-> st.pd])]
         ELSE st
    ELSE processNextSequenceFunction([st EXCEPT !.idx = st.idx + 2])

handleSequenceFunctionComplete(st) ==
    IF IsLastStage(st.idx)
    THEN IF callback
         THEN [st EXCEPT !.cbl = Append(st.cbl, [err |-> st.pe, data |-> st.pd])]
         ELSE st
    ELSE processNextSequenceFunction([st EXCEPT !.idx = st.idx + 1])

\* variant: the result of a completion that arrives after terminate() is
\* dropped
handlePartialSequenceCompleteDropLate(st, err, data) ==
    LET st1 == [st EXCEPT !.cf = DecrementCounter(st.cf),
                          !.pd = IF st.idx >= Len(sequence) THEN st.pd
                                 ELSE MergeData(st.pd, data),
                          !.pe = AccumulateErr(st.pe, err)]
    IN IF StageDone(st1.cf) THEN handleSequenceFunctionComplete(st1) ELSE st1

handlePartialSequenceComplete(st, err, data) ==
    LET st1 == [st EXCEPT !.cf = DecrementCounter(st.cf),
                          !.pd = MergeData(st.pd, data),
                          !.pe = AccumulateErr(st.pe, err)]
    IN IF StageDone(st1.cf) THEN handleSequenceFunctionComplete(st1) ELSE st1

\* writes a handler's result back into the Sequencer fields
Store(st) ==
    /\ currentSequenceIdx' = st.idx
    /\ pendingData' = st.pd
    /\ pendingErr' = st.pe
    /\ concurrentFunctions' = st.cf
    /\ stack' = st.stk
    /\ callbackLog' = st.cbl
    /\ fault' = st.fault
    /\ args' = st.ar

Task(stage, fIdx) == sequence[stage + 1].tasks[fIdx]

\* the task (stage, fIdx) has invoked its completion callback
Completed(stage, fIdx) ==
    \E i \in 1..Len(calls) :
        calls[i].stage = stage /\ calls[i].fIdx = fIdx /\ completions[i] >= 1

\* completions beyond the first of the invocation that made them
RECURSIVE ExtraUpTo(_)
ExtraUpTo(n) ==
    IF n = 0 THEN 0
    ELSE ExtraUpTo(n - 1) + (IF completions[n] > 1 THEN completions[n] - 1 ELSE 0)

ExtraCompletions == ExtraUpTo(Len(completions))

\* the invocation calls[i] may complete if it has not done so yet, or if the
\* run may still take one more repeated completion
MayComplete(i, extra) == completions[i] = 0 \/ ExtraCompletions < extra

\* the completion callback of the invocation calls[i] is called
Complete(i, sync) ==
    LET t == Task(calls[i].stage, calls[i].fIdx)
    IN /\ Store(handlePartialSequenceComplete(State, t.err, t.data))
       /\ completions' = [completions EXCEPT ![i] = @ + 1]
       /\ results' = [results EXCEPT ![calls[i].stage + 1] = Overlay(@, t.data)]
       /\ allSync' = (allSync /\ sync)
       /\ lastWriter' = Overlay(lastWriter, [k \in DOMAIN t.data |-> i])

Top == stack[Len(stack)]

\* ---------------------------------------------------------------- actions
\* go(): this.processNextSequenceFunction()
go ==
    /\ constructed /\ ~thrown
    /\ ~started
    /\ started' = TRUE
    /\ Store(processNextSequenceFunction(State))
    /\ UNCHANGED <<sequence, callback, calls, completions, results, allSync, lastWriter,
                   terminatedAt,
                   terminatedStage, terminatedBy, constructVars>>

\* one iteration of the dispatch loop: the next task of the stage is invoked
\* with (opts, handlePartialSequenceComplete) and its body starts running
Dispatch ==
    /\ stack # <<>>
    /\ ~Top.running
    /\ calls' = Append(calls, [stage |-> Top.stage, fIdx |-> Top.next,
                               opts |-> TaskContext(Top.opts, pendingData)])
    /\ completions' = Append(completions, 0)
    /\ stack' = [stack EXCEPT ![Len(stack)].running = TRUE,
                              ![Len(stack)].call = Len(calls) + 1]
    /\ UNCHANGED <<sequence, args, callback, currentSequenceIdx, pendingData,
                   pendingErr, concurrentFunctions, started, fault, results,
                   allSync, lastWriter, callbackLog, terminatedAt,
                   terminatedStage, terminatedBy, constructVars>>

\* the running task invokes its completion callback from inside its body
SyncComplete(extra) ==
    /\ stack # <<>>
    /\ Top.running
    /\ MayComplete(Top.call, extra)
    /\ Complete(Top.call, TRUE)
    /\ UNCHANGED <<sequence, callback, started, calls, terminatedAt,
                   terminatedStage, terminatedBy, constructVars>>

\* the running task's body returns; the loop moves on, and ends after the
\* last task of the stage
TaskReturn ==
    /\ stack # <<>>
    /\ Top.running
    /\ stack' = IF Top.next >= Len(sequence[Top.stage + 1].tasks)
                THEN SubSeq(stack, 1, Len(stack) - 1)
                ELSE [stack EXCEPT ![Len(stack)].running = FALSE,
                                   ![Len(stack)].next = Top.next + 1]
    /\ UNCHANGED <<sequence, args, callback, currentSequenceIdx, pendingData,
                   pendingErr, concurrentFunctions, started, fault, calls,
                   completions, results, allSync, lastWriter, callbackLog, terminatedAt,
                   terminatedStage, terminatedBy, constructVars>>

\* the completion callback of a task that was invoked earlier is called after
\* that task's body has returned: from the event loop (no Sequencer code is
\* on the stack) or from inside the body of the task that is running
AsyncComplete(extra) ==
    /\ IF stack = <<>> THEN TRUE ELSE Top.running
    /\ \E i \in 1..Len(calls) :
          /\ IF stack = <<>> THEN TRUE ELSE \A j \in 1..Len(stack) : stack[j].call # i
          /\ MayComplete(i, extra)
          /\ Complete(i, FALSE)
    /\ UNCHANGED <<sequence, callback, started, calls, terminatedAt,
                   terminatedStage, terminatedBy, constructVars>>

\* variant: terminate() leaves the index where it is
TerminateIdxKept(idx) == idx

\* `this.currentSequenceIdx = this.sequence.length`
TerminateIdx(idx) == Len(sequence)

\* variant: terminate() also delivers the terminal callback
terminateAndDeliver ==
    /\ constructed /\ ~thrown
    /\ IF stack = <<>> THEN TRUE ELSE Top.running
    /\ currentSequenceIdx' = TerminateIdx(currentSequenceIdx)
    /\ terminatedAt' = IF terminatedAt < 0 THEN Len(calls) ELSE terminatedAt
    /\ terminatedStage' = IF terminatedAt < 0 THEN currentSequenceIdx
                          ELSE terminatedStage
    /\ terminatedBy' = IF terminatedAt >= 0 THEN terminatedBy
                       ELSE IF stack = <<>> THEN 0
                       ELSE IF completions[Top.call] = 0 THEN Top.call ELSE 0
    /\ callbackLog' = IF callback /\ terminatedAt < 0
                      THEN Append(callbackLog, [err |-> pendingErr, data |-> pendingData])
                      ELSE callbackLog
    /\ UNCHANGED <<sequence, args, callback, pendingData, pendingErr,
                   concurrentFunctions, stack, started, fault, calls, completions,
                   results, allSync, lastWriter, constructVars>>

\* terminate(), called by an external holder (empty stack) or from the body
\* of the running task through opts.sequence
terminate ==
    /\ constructed /\ ~thrown
    /\ IF stack = <<>> THEN TRUE ELSE Top.running
    /\ currentSequenceIdx' = TerminateIdx(currentSequenceIdx)
    /\ terminatedAt' = IF terminatedAt < 0 THEN Len(calls) ELSE terminatedAt
    /\ terminatedStage' = IF terminatedAt < 0 THEN currentSequenceIdx
                          ELSE terminatedStage
    /\ terminatedBy' = IF terminatedAt >= 0 THEN terminatedBy
                       ELSE IF stack = <<>> THEN 0
                       ELSE IF completions[Top.call] = 0 THEN Top.call ELSE 0
    /\ UNCHANGED <<sequence, args, callback, pendingData, pendingErr,
                   concurrentFunctions, stack, started, fault, calls, completions,
                   results, allSync, lastWriter, callbackLog, constructVars>>

\* construct.apply(sequencer, arguments): resets the fields, lets
\* objConstructor or arrConstructor store and validate the values, and
\* reports a startup error to the callback that was stored
construct ==
    /\ ~constructed
    /\ constructed' = TRUE
    /\ LET r == IF config.form = "object" THEN objConstructor(config)
                ELSE arrConstructor(config, IF config.form = "none"
                                            THEN NullArguments ELSE "")
       IN /\ sequence' = r.sequence
          /\ sequenceKind' = r.kind
          /\ args' = r.args
          /\ callback' = r.callback
          /\ startupErrorText' = r.text
          /\ thrown' = r.thrown
          /\ results' = [s \in 1..Len(r.sequence) |-> EmptyMap]
          /\ callbackLog' = IF ~r.thrown /\ r.text # "" /\ r.callback
                            THEN Append(callbackLog, [err |-> Str(r.text), data |-> Null])
                            ELSE callbackLog
    /\ currentSequenceIdx' = 0
    /\ pendingData' = EmptyMap
    /\ concurrentFunctions' = 0
    /\ UNCHANGED <<pendingErr, stack, started, fault, calls, completions, allSync, lastWriter,
                   terminatedAt, terminatedStage, terminatedBy, config>>

\* every task honours the task contract: it completes at most once
Next ==
    \/ go
    \/ Dispatch
    \/ SyncComplete(0)
    \/ TaskReturn
    \/ AsyncComplete(0)
    \/ terminate

Spec == Init /\ [][Next]_vars

\* tasks may repeat a completion: up to MaxExtraCompletions repeated
\* completions in a run
NextMulti ==
    \/ go
    \/ Dispatch
    \/ SyncComplete(MaxExtraCompletions)
    \/ TaskReturn
    \/ AsyncComplete(MaxExtraCompletions)
    \/ terminate

SpecMulti == Init /\ [][NextMulti]_vars

\* Runs of a valid configuration of fewer than MaxStages stages, each a
\* single task or a group of one to MaxGroup tasks, with a terminal callback,
\* in which the dispatch loop goes on, every task body returns and every
\* dispatched task invokes its completion callback, inside its body or later.
LiveSequencePool ==
    {Build(shape) : shape \in UNION {[1..n -> 0..MaxGroup] : n \in 1..(MaxStages - 1)}}

InitLive ==
    /\ sequence \in LiveSequencePool
    /\ args = NoArgs
    /\ callback = TRUE
    /\ currentSequenceIdx = 0
    /\ pendingData = EmptyMap
    /\ pendingErr = Undefined
    /\ concurrentFunctions = 0
    /\ stack = <<>>
    /\ started = FALSE
    /\ fault = FALSE
    /\ calls = <<>>
    /\ completions = <<>>
    /\ results = [s \in 1..Len(sequence) |-> EmptyMap]
    /\ allSync = TRUE
    /\ lastWriter = EmptyMap
    /\ callbackLog = <<>>
    /\ terminatedAt = 0 - 1
    /\ terminatedStage = 0 - 1
    /\ terminatedBy = 0
    /\ config = [form |-> "object", seq |-> "array", stages |-> sequence,
                 args |-> "absent", cb |-> "function", extra |-> FALSE]
    /\ constructed = TRUE
    /\ thrown = FALSE
    /\ startupErrorText = ""
    /\ sequenceKind = "array"

\* Stage lists of one or two stages, each a single task or a group of
\* MaxGroup tasks.
RepeatSequencePool ==
    {Build(shape) : shape \in UNION {[1..n -> {0, MaxGroup}] : n \in 1..2}}

\* construct() has run on such a stage list, with a callback and without
\* initial arguments
InitRepeat ==
    /\ sequence \in RepeatSequencePool
    /\ args = NoArgs
    /\ callback = TRUE
    /\ currentSequenceIdx = 0
    /\ pendingData = EmptyMap
    /\ pendingErr = Undefined
    /\ concurrentFunctions = 0
    /\ stack = <<>>
    /\ started = FALSE
    /\ fault = FALSE
    /\ calls = <<>>
    /\ completions = <<>>
    /\ results = [s \in 1..Len(sequence) |-> EmptyMap]
    /\ allSync = TRUE
    /\ lastWriter = EmptyMap
    /\ callbackLog = <<>>
    /\ terminatedAt = 0 - 1
    /\ terminatedStage = 0 - 1
    /\ terminatedBy = 0
    /\ config = [form |-> "object", seq |-> "array", stages |-> sequence,
                 args |-> "absent", cb |-> "function", extra |-> FALSE]
    /\ constructed = TRUE
    /\ thrown = FALSE
    /\ startupErrorText = ""
    /\ sequenceKind = "array"

Fairness ==
    /\ WF_vars(Dispatch)
    /\ WF_vars(TaskReturn)
    /\ WF_vars(SyncComplete(0) \/ AsyncComplete(0))

SpecLive == InitLive /\ [][Next]_vars /\ Fairness

\* construction from the caller's values, followed by a run
NextConstruct ==
    \/ construct
    \/ go
    \/ Dispatch
    \/ SyncComplete(0)
    \/ TaskReturn
    \/ AsyncComplete(0)
    \/ terminate

SpecConstruct == InitConstruct /\ [][NextConstruct]_vars

\* runs whose tasks may report errors
SpecErr == InitErr /\ [][Next]_vars

\* runs of short stage lists in which tasks may repeat a completion
SpecRepeat == InitRepeat /\ [][NextMulti]_vars

\* runs in which tasks report results that are no plain mappings
SpecData == InitData /\ [][Next]_vars

\* runs whose tasks report colliding result keys
SpecKeys == InitKeys /\ [][Next]_vars

\* ------------------------------------------------------ history operators
StageCount == Len(sequence)
StageTasks(s) == 1..Len(sequence[s + 1].tasks)

\* the tasks of stage s that have invoked their completion callback
NumCompleted(s) == Cardinality({f \in StageTasks(s) : Completed(s, f)})

\* processNextSequenceFunction has run for stage s
Started(s) ==
    \/ \E i \in 1..Len(calls) : calls[i].stage = s
    \/ \E j \in 1..Len(stack) : stack[j].stage = s

\* processNextSequenceFunction has run for a stage after s
NextStarted(s) ==
    \/ \E i \in 1..Len(calls) : calls[i].stage > s
    \/ \E j \in 1..Len(stack) : stack[j].stage > s

\* the results of stage s merged in the order its completions arrived
Merged(s) == results[s + 1]

\* the union of the result mappings of stages 0..n-1 (single-task stages)
RECURSIVE UnionOfResults(_)
UnionOfResults(n) ==
    IF n = 0 THEN EmptyMap
    ELSE Overlay(UnionOfResults(n - 1), Task(n - 1, 1).data)

ArgKeys == IF args.present THEN DOMAIN args.map ELSE {}

\* the stage of the most recent task invocation
LastExecutedStage == calls[Len(calls)].stage

\* N single-task stages with pairwise disjoint result keys, no terminate(),
\* every completion so far synchronous and without error
SyncSinglesRun ==
    /\ \A s \in 0..(StageCount - 1) : ~sequence[s + 1].isArray
    /\ \A s, t \in 0..(StageCount - 1) :
          s # t => (DOMAIN Task(s, 1).data) \cap (DOMAIN Task(t, 1).data) = {}
    /\ \A s \in 0..(StageCount - 1) : Task(s, 1).err = ""
    /\ terminatedAt < 0
    /\ allSync

\* the invocations that have completed at least once
CompletedCalls == {i \in 1..Len(calls) : completions[i] >= 1}

\* a task of a group completed inside its body, before its next sibling was
\* invoked, and another task of the same group completed from the event loop
MixedGroup(s) ==
    /\ sequence[s + 1].isArray
    /\ Len(sequence[s + 1].tasks) >= 2
    /\ NumCompleted(s) = Len(sequence[s + 1].tasks)
    /\ ~allSync

\* ------------------------------------------------------------- properties

\* C1: when go() is called once and every task invokes its completion
\* callback at most once (synchronously or asynchronously, terminate()
\* possibly called at any point), the terminal callback is never invoked
\* more than once.
TerminalCallbackAtMostOnce == Len(callbackLog) <= 1

C1_Witness ==
    /\ Len(callbackLog) = 1
    /\ terminatedAt >= 0
    /\ ~allSync
    /\ Len(calls) >= 2

\* C2: the terminal callback is invoked at most once per run even when a
\* task invokes its completion callback more than once or completions keep
\* arriving after the final stage or after terminate().
NoSecondDelivery == \A n \in 1..Len(callbackLog) : n = 1

\* C3: no task of stage i+1 is invoked before every task of stage i has
\* invoked its completion callback.
StagesInDeclaredOrder ==
    \A i \in 1..Len(calls) :
        \A s \in 0..(calls[i].stage - 1) :
            \A f \in StageTasks(s) : Completed(s, f)

C3_Witness ==
    \E i \in 1..Len(calls) :
        /\ calls[i].stage >= 1
        /\ MixedGroup(calls[i].stage - 1)

\* C4: for a parallel group of M tasks, neither the next stage starts nor
\* the terminal callback fires while fewer than M of its tasks have
\* completed, and the stage completes at the M-th completion: the next stage
\* is started, or (last stage, or terminated) the terminal callback fires.
GroupFanIn ==
    \A s \in 0..(StageCount - 1) :
        (sequence[s + 1].isArray /\ Started(s)) =>
            LET M == Len(sequence[s + 1].tasks)
            IN /\ NumCompleted(s) < M => (~NextStarted(s) /\ callbackLog = <<>>)
               /\ NumCompleted(s) = M =>
                    \/ NextStarted(s)
                    \/ /\ s = StageCount - 1 \/ terminatedAt >= 0
                       /\ callback => callbackLog # <<>>

C4_Witness ==
    \E s \in 0..(StageCount - 1) :
        /\ MixedGroup(s)
        /\ NextStarted(s)

\* C5 (as stated): N single-task stages completing synchronously and
\* successfully with pairwise disjoint result keys deliver to the terminal
\* callback the union of all N result mappings and a falsy error.
SyncSinglesDeliverUnion ==
    SyncSinglesRun =>
        /\ (callback /\ Cardinality(CompletedCalls) = StageCount) => Len(callbackLog) = 1
        /\ \A n \in 1..Len(callbackLog) :
              /\ Cardinality(CompletedCalls) = StageCount
              /\ callbackLog[n].data = UnionOfResults(StageCount)
              /\ ~Truthy(callbackLog[n].err)

\* C5 (amended): such a run delivers to the terminal callback the result
\* mapping of the last (N-th) stage alone, and a falsy error.
SyncSinglesDeliverLastResult ==
    SyncSinglesRun =>
        /\ (callback /\ Cardinality(CompletedCalls) = StageCount) => Len(callbackLog) = 1
        /\ \A n \in 1..Len(callbackLog) :
              /\ Cardinality(CompletedCalls) = StageCount
              /\ callbackLog[n].data = Task(StageCount - 1, 1).data
              /\ ~Truthy(callbackLog[n].err)

C5_Witness ==
    /\ SyncSinglesRun
    /\ StageCount = 3
    /\ Len(callbackLog) = 1
    /\ callbackLog[1].data # UnionOfResults(StageCount)

\* C6: the data delivered to the terminal callback is exactly the merged
\* result of the last executed stage.
TerminalDataIsLastStageMerge ==
    \A n \in 1..Len(callbackLog) :
        /\ calls # <<>>
        /\ callbackLog[n].data = Merged(LastExecutedStage)

C6_Witness ==
    /\ Len(callbackLog) = 1
    /\ StageCount = 2
    /\ sequence[1].isArray /\ Len(sequence[1].tasks) = 2
    /\ LastExecutedStage = 1
    /\ callbackLog[1].data = Task(1, 1).data

\* C7: the context of every task of stage i >= 1 contains every key/value
\* merged from the results of all tasks of stage i-1.
ContextHasPreviousStageResults ==
    \A i \in 1..Len(calls) :
        calls[i].stage >= 1 =>
            LET p == calls[i].stage - 1
            IN /\ \A k \in DOMAIN Merged(p) :
                    k \in DOMAIN calls[i].opts /\ calls[i].opts[k] = Merged(p)[k]
               /\ \A f \in StageTasks(p) :
                    (DOMAIN Task(p, f).data) \subseteq DOMAIN calls[i].opts

C7_Witness ==
    \E i \in 1..Len(calls) :
        /\ calls[i].stage >= 1
        /\ MixedGroup(calls[i].stage - 1)
        /\ args.present

\* C8 (as stated): a key produced by a task of stage i is present in the
\* context of every task of every later stage j > i.
KeysVisibleAtEveryLaterStage ==
    \A i \in 1..Len(calls) : \A c \in CompletedCalls :
        calls[c].stage < calls[i].stage =>
            (DOMAIN Task(calls[c].stage, calls[c].fIdx).data)
                \subseteq DOMAIN calls[i].opts

\* C8 (amended): a key produced by a task of stage i is present in the
\* context of every task of stage i+1; in the context of a later stage
\* j > i+1 it is present exactly when it is a key of initialArgs, the key
\* `sequence`, or a key produced again by stage j-1.
KeysVisibleAtNextStageOnly ==
    \A i \in 1..Len(calls) : \A c \in CompletedCalls :
        calls[c].stage < calls[i].stage =>
            \A k \in DOMAIN Task(calls[c].stage, calls[c].fIdx).data :
                k \in DOMAIN calls[i].opts <=>
                    \/ k \in DOMAIN Merged(calls[i].stage - 1)
                    \/ k \in ArgKeys
                    \/ k = "sequence"

C8_Witness ==
    \E i \in 1..Len(calls) : \E c \in CompletedCalls :
        /\ calls[i].stage = calls[c].stage + 2
        /\ \E k \in DOMAIN Task(calls[c].stage, calls[c].fIdx).data :
              k \notin DOMAIN calls[i].opts

\* C9: no task of stage i receives in its context a key first produced in
\* stage i or in a later stage: every key of its context is `sequence`, a
\* key of initialArgs or a key produced by a completion of an earlier stage.
NoSameOrLaterStageKeys ==
    \A i \in 1..Len(calls) : \A k \in DOMAIN calls[i].opts :
        \/ k = "sequence"
        \/ k \in ArgKeys
        \/ \E c \in CompletedCalls :
              /\ calls[c].stage < calls[i].stage
              /\ k \in DOMAIN Task(calls[c].stage, calls[c].fIdx).data

\* the second task of a group has just been invoked, after its first sibling
\* completed inside its own body, and does not see the sibling's result
C9_Witness ==
    /\ stack # <<>>
    /\ \E i \in 1..Len(calls) : \E c \in CompletedCalls :
          /\ i = Len(calls)
          /\ Top.running /\ Top.call = i
          /\ completions[i] = 0
          /\ calls[i].fIdx = 2
          /\ calls[c].stage = calls[i].stage
          /\ calls[c].fIdx = 1
          /\ (DOMAIN Task(calls[c].stage, 1).data) \cap (DOMAIN calls[i].opts) = {}

\* C10: every key of initialArgs is present in the context of every
\* dispatched task at every stage, with its initialArgs value unless a
\* result of the immediately preceding stage uses the same key.
InitialArgsVisible ==
    args.present =>
        \A i \in 1..Len(calls) : \A k \in DOMAIN args.map :
            /\ k \in DOMAIN calls[i].opts
            /\ calls[i].opts[k] =
                 IF calls[i].stage >= 1 /\ k \in DOMAIN Merged(calls[i].stage - 1)
                 THEN Merged(calls[i].stage - 1)[k]
                 ELSE args.map[k]

C10_Witness ==
    /\ args.present
    /\ \E i, j \in 1..Len(calls) :
          /\ calls[i].stage + 1 = calls[j].stage
          /\ calls[i].opts["arg1"] # args.map["arg1"]
          /\ calls[j].opts["arg1"] = args.map["arg1"]

\* C11: once terminate() has been called, before any stage was dispatched or
\* while stage k was in progress, no task of a stage after k is invoked,
\* whatever completions arrive later; a terminate() before any dispatch
\* leaves every task uninvoked.
NoLaterStageAfterTerminate ==
    terminatedAt >= 0 =>
        \A i \in (terminatedAt + 1)..Len(calls) :
            /\ terminatedAt >= 1
            /\ calls[i].stage <= terminatedStage

\* terminate() was called from the body of the first task of a group that is
\* not the last stage; its sibling was invoked afterwards, every task of the
\* group has completed and the run is over
C11_Witness ==
    /\ terminatedAt >= 1
    /\ terminatedStage + 1 < StageCount
    /\ Len(calls) > terminatedAt
    /\ NumCompleted(terminatedStage) = Len(sequence[terminatedStage + 1].tasks)
    /\ ~allSync
    /\ stack = <<>>

\* C12: when a task of stage k calls terminate() and then completes with
\* result r, the terminal callback fires exactly once (at the completion
\* that ends stage k), its data is the merge of stage k, which contains r,
\* and no task of a stage after k is invoked.
TerminateFromTaskDeliversOnce ==
    terminatedBy >= 1 =>
        LET k == calls[terminatedBy].stage
            r == Task(k, calls[terminatedBy].fIdx).data
            ended == NumCompleted(k) = Len(sequence[k + 1].tasks)
        IN /\ Len(callbackLog) <= 1
           /\ (callback /\ ended) => Len(callbackLog) = 1
           /\ \A n \in 1..Len(callbackLog) :
                 /\ completions[terminatedBy] >= 1
                 /\ ended
                 /\ DOMAIN r \subseteq DOMAIN callbackLog[n].data
                 /\ callbackLog[n].data = Merged(k)
           /\ \A i \in 1..Len(calls) : calls[i].stage <= k

\* the terminating task was the second of a group that is not the last
\* stage, and the callback has been delivered with both results
C12_Witness ==
    /\ terminatedBy >= 1
    /\ calls[terminatedBy].fIdx = 2
    /\ calls[terminatedBy].stage + 1 < StageCount
    /\ Len(callbackLog) = 1
    /\ Cardinality(DOMAIN callbackLog[1].data) = 2

\* a task of stage s has completed with a non-empty error
ErrorReportedIn(s) ==
    \E c \in CompletedCalls :
        calls[c].stage = s /\ Task(s, calls[c].fIdx).err # ""

StageEnded(s) == NumCompleted(s) = Len(sequence[s + 1].tasks)

\* C13: absent terminate(), a task-reported error never stops advancement:
\* once every task of stage i has completed, with or without an error, stage
\* i+1 has been dispatched, and the terminal callback is delivered only
\* after every stage has ended.
ErrorsDoNotStopAdvancement ==
    terminatedAt < 0 =>
        /\ \A s \in 0..(StageCount - 2) : StageEnded(s) => Started(s + 1)
        /\ callbackLog # <<>> => \A s \in 0..(StageCount - 1) : StageEnded(s)

C13_Witness ==
    /\ terminatedAt < 0
    /\ StageCount >= 2
    /\ ErrorReportedIn(0)
    /\ ~sequence[1].isArray
    /\ Len(callbackLog) = 1

\* C14: the error passed to the terminal callback is falsy if and only if
\* no task of the run reported a truthy error; an error reported in an early
\* stage is still carried to the terminal callback after the later stages.
TerminalErrorIffTaskError ==
    \A n \in 1..Len(callbackLog) :
        Truthy(callbackLog[n].err) <=> \E s \in 0..(StageCount - 1) : ErrorReportedIn(s)

\* the only error of the run was reported in stage 0 and two more stages ran
\* before the callback was delivered
C14_Witness ==
    /\ terminatedAt < 0
    /\ StageCount = 3
    /\ ErrorReportedIn(0)
    /\ ~ErrorReportedIn(1) /\ ~ErrorReportedIn(2)
    /\ Len(callbackLog) = 1
    /\ Truthy(callbackLog[1].err)

\* every stage of a non-empty stage list has ended
RunEnded ==
    /\ StageCount >= 1
    /\ \A s \in 0..(StageCount - 1) : StageEnded(s)

ShapeViolationReportedOnce ==
    (constructed /\ config.form = "object" /\ config.cb = "function"
        /\ startupErrorText # "") =>
        callbackLog = <<[err |-> Str(startupErrorText), data |-> Null]>>

\* C17: after a construction shape violation execution never starts: go()
\* raises no fault and no task is ever executed.
NoExecutionAfterShapeViolation ==
    (constructed /\ startupErrorText \in {InvalidSequence, InvalidArgs}) =>
        /\ ~fault
        /\ calls = <<>>
        /\ stack = <<>>

\* C18: a Sequencer built from the positional values (stages, initialArgs,
\* onComplete) behaves as one built from the object form with the same
\* values: a non-callable onComplete is rejected with the fatal error, the
\* keys of initialArgs are in every task's context, and onComplete receives
\* the terminal (error, data) exactly once when the run has ended.
PositionalAsObjectForm ==
    (constructed /\ config.form = "positional" /\ ~config.extra) =>
        /\ config.cb = "object" => thrown
        /\ config.args = "mapping" =>
              \A i \in 1..Len(calls) : {"arg1", "arg2"} \subseteq DOMAIN calls[i].opts
        /\ (config.cb = "function" /\ sequenceKind = "array" /\ RunEnded) =>
              Len(callbackLog) = 1

\* C19: a bare task handed over instead of a stage list runs as the stage
\* list [task]: go() raises no fault and invokes the task exactly once, and
\* its completion delivers the terminal callback with its result.
BareTaskRunsAsSingleStage ==
    (config.seq = "function" /\ config.form = "object" /\ startupErrorText = ""
        /\ started) =>
        /\ ~fault
        /\ stack # <<>> \/ Len(calls) = 1
        /\ (config.cb = "function" /\ CompletedCalls # {}) =>
              callbackLog = <<[err |-> Undefined, data |-> func1.data]>>

\* C20: a configuration whose stage list is empty is rejected at
\* construction as a shape violation, reported through the callback when one
\* was supplied (object form); go() on it executes nothing and raises no
\* fault.
EmptyStageListRejected ==
    (constructed /\ ~thrown /\ config.seq = "array" /\ config.stages = <<>>
        /\ ~config.extra) =>
        /\ startupErrorText # ""
        /\ (config.form = "object" /\ config.cb = "function") => callbackLog # <<>>
        /\ ~fault
        /\ calls = <<>>

\* C21: for a valid configuration with a terminal callback whose stages are
\* single tasks or groups of at least one task, once go() has been called
\* and started the run, and every dispatched task completes exactly once,
\* the terminal callback is eventually invoked, with or without terminate()
\* being called along the way.
CallbackEventuallyInvoked == (started /\ ~fault) ~> (callbackLog # <<>>)

\* a run of two stages ended without terminate(), some completion having
\* come from the event loop
C21_Witness ==
    /\ StageCount >= 2
    /\ terminatedAt < 0
    /\ ~allSync
    /\ RunEnded
    /\ Len(callbackLog) = 1
    /\ \E s \in 0..(StageCount - 1) :
          sequence[s + 1].isArray /\ Len(sequence[s + 1].tasks) = 1
    /\ \E s \in 0..(StageCount - 1) :
          sequence[s + 1].isArray /\ Len(sequence[s + 1].tasks) = 2

\* C22: terminate() does not cancel work already dispatched: the later
\* completions of the outstanding tasks of the current stage are still
\* merged into pendingData, and the terminal callback fires only when the
\* last task of that stage has completed, with data that includes the
\* results of all its tasks.
TerminateKeepsOutstandingWork ==
    (terminatedAt >= 1 /\ terminatedStage < StageCount) =>
        LET k == terminatedStage
        IN /\ pendingData = Merged(k)
           /\ \A c \in CompletedCalls :
                 calls[c].stage = k =>
                    DOMAIN Task(k, calls[c].fIdx).data \subseteq DOMAIN pendingData
           /\ (callback /\ StageEnded(k)) => Len(callbackLog) = 1
           /\ \A n \in 1..Len(callbackLog) :
                 /\ StageEnded(k)
                 /\ \A f \in StageTasks(k) :
                       DOMAIN Task(k, f).data \subseteq DOMAIN callbackLog[n].data

\* terminate() came from the event loop while a group that is not the last
\* stage was outstanding; the callback was delivered with both results
C22_Witness ==
    /\ terminatedAt >= 1
    /\ terminatedBy = 0
    /\ terminatedStage + 1 < StageCount
    /\ sequence[terminatedStage + 1].isArray
    /\ LastExecutedStage = terminatedStage
    /\ Len(callbackLog) = 1
    /\ Cardinality(DOMAIN callbackLog[1].data) = 2

\* C23: if terminate() is called before go(), a subsequent go() invokes no
\* task, raises no fault, and the terminal callback is delivered exactly
\* once.
TerminateBeforeGoDelivers ==
    (terminatedAt = 0 /\ started) =>
        /\ calls = <<>>
        /\ ~fault
        /\ callback => Len(callbackLog) = 1

\* the task (s, f) has been invoked
Invoked(s, f) == \E i \in 1..Len(calls) : calls[i].stage = s /\ calls[i].fIdx = f

\* go() has run and nothing is in progress or outstanding
Quiescent ==
    /\ started
    /\ stack = <<>>
    /\ \A i \in 1..Len(calls) : completions[i] >= 1

\* C25: when go() is called once and every task completes exactly once,
\* every task is invoked at most once; without terminate() every task of
\* every stage has been invoked exactly once when the run is over.
EveryTaskInvokedOnce ==
    /\ \A i, j \in 1..Len(calls) :
          (calls[i].stage = calls[j].stage /\ calls[i].fIdx = calls[j].fIdx) => i = j
    /\ (terminatedAt < 0 /\ (Quiescent \/ callbackLog # <<>>)) =>
          \A s \in 0..(StageCount - 1) : \A f \in StageTasks(s) : Invoked(s, f)

C25_Witness ==
    /\ terminatedAt < 0
    /\ Quiescent
    /\ ~callback
    /\ StageCount = 3
    /\ Len(calls) >= 4

\* the results of the first n tasks of stage s merged in declared order
RECURSIVE DeclaredMergeUpTo(_, _)
DeclaredMergeUpTo(s, n) ==
    IF n = 0 THEN EmptyMap
    ELSE Overlay(DeclaredMergeUpTo(s, n - 1), Task(s, n).data)

DeclaredMerge(s) == DeclaredMergeUpTo(s, Len(sequence[s + 1].tasks))

DisjointKeys(s) ==
    \A f, g \in StageTasks(s) :
        f # g => (DOMAIN Task(s, f).data) \cap (DOMAIN Task(s, g).data) = {}

\* C27: for a parallel group whose tasks produce pairwise disjoint result
\* keys, the merged stage result (the part of the next stage's context that
\* comes from the group, or the terminal data) is the same for every order
\* in which the group's completions arrive: the union of the results.
MergeIndependentOfArrivalOrder ==
    \A s \in 0..(StageCount - 1) :
        (sequence[s + 1].isArray /\ DisjointKeys(s)) =>
            LET union == DeclaredMerge(s)
            IN /\ \A i \in 1..Len(calls) :
                     calls[i].stage = s + 1 =>
                        \A k \in DOMAIN union :
                           k \in DOMAIN calls[i].opts /\ calls[i].opts[k] = union[k]
               /\ \A n \in 1..Len(callbackLog) :
                     LastExecutedStage = s => callbackLog[n].data = union

\* a group was completed from the event loop, its results went into the
\* next stage, and a later group delivered the terminal data
C27_Witness ==
    /\ StageCount >= 2
    /\ MixedGroup(0)
    /\ MixedGroup(StageCount - 1)
    /\ terminatedAt < 0
    /\ Len(callbackLog) = 1

\* C29: the context built for a stage is initialArgs overlaid with the
\* previous stage's merged results (plus the key sequence): on a key
\* collision the previous stage's value replaces the initialArgs value; and
\* pendingData is empty when the dispatch of the stage's tasks begins.
ContextIsArgsOverlaidWithPrevious ==
    /\ \A i \in 1..Len(calls) :
          LET prev == IF calls[i].stage >= 1 THEN Merged(calls[i].stage - 1)
                      ELSE EmptyMap
          IN /\ DOMAIN calls[i].opts = {"sequence"} \cup ArgKeys \cup DOMAIN prev
             /\ \A k \in DOMAIN prev : calls[i].opts[k] = prev[k]
             /\ \A k \in ArgKeys \ DOMAIN prev : calls[i].opts[k] = args.map[k]
    /\ (stack # <<>> /\ ~Top.running /\ Top.next = 1) => pendingData = EmptyMap

\* the dispatch of a stage is about to begin with a context in which the
\* previous stage's value for arg1 has replaced the initialArgs value
C29_Witness ==
    /\ stack # <<>>
    /\ ~Top.running
    /\ Top.next = 1
    /\ Top.stage >= 1
    /\ args.present
    /\ Top.opts["arg1"] # args.map["arg1"]
    /\ Top.opts["arg2"] = args.map["arg2"]

\* stage s is an empty parallel group
EmptyGroup(s) == sequence[s + 1].isArray /\ Len(sequence[s + 1].tasks) = 0

\* the run of a well-formed configuration has arrived at stage s
Reached(s) ==
    /\ started
    /\ ~fault
    /\ startupErrorText = ""
    /\ terminatedAt < 0
    /\ \A r \in 0..(s - 1) : StageEnded(r)

\* C24: a stage that is an empty parallel group does not stall the run: it
\* is treated as complete at once, and the run proceeds to the next stage
\* or, if it is the last stage, to the terminal callback.
EmptyGroupDoesNotStall ==
    \A s \in 0..(StageCount - 1) :
        (Reached(s) /\ EmptyGroup(s)) =>
            IF s + 1 < StageCount THEN currentSequenceIdx > s
            ELSE callback => callbackLog # <<>>

\* the result keys of the tasks of stage s
StageKeys(s) == UNION {DOMAIN Task(s, f).data : f \in StageTasks(s)}

\* the value reported for key k by the task whose completion arrived last
LastArrived(k) ==
    LET c == calls[lastWriter[k]] IN Task(c.stage, c.fIdx).data[k]

\* stage s holds the latest completions of the run
LatestCompletions(s) == \A c \in CompletedCalls : calls[c].stage <= s

\* the contexts built from the merged results of stage s
ContextsAfter(s) ==
    {calls[i].opts : i \in {n \in 1..Len(calls) : calls[n].stage = s + 1}}
    \cup {stack[j].opts : j \in {n \in 1..Len(stack) : stack[n].stage = s + 1}}

\* C26: merging is last-writer-wins: when several tasks of one stage report
\* the same key, after the stage completes pendingData (or the context built
\* from it) holds for that key the value from the task whose completion
\* arrived last; a collision raises no fault and no error, and no other key
\* is discarded.
LastWriterWins ==
    /\ fault => terminatedAt = 0
    /\ \A n \in 1..Len(callbackLog) :
          Truthy(callbackLog[n].err) => \E s \in 0..(StageCount - 1) : ErrorReportedIn(s)
    /\ \A s \in 0..(StageCount - 1) :
          (StageEnded(s) /\ LatestCompletions(s)) =>
             /\ \A o \in ContextsAfter(s) :
                   \A k \in StageKeys(s) : k \in DOMAIN o /\ o[k] = LastArrived(k)
             /\ ~NextStarted(s) =>
                   /\ DOMAIN pendingData = StageKeys(s)
                   /\ \A k \in StageKeys(s) : pendingData[k] = LastArrived(k)
                   /\ \A n \in 1..Len(callbackLog) : callbackLog[n].data = pendingData

\* funcK1 and funcK2 ran in the group that is the last of three stages, the
\* completion of the first-declared funcK1 arrived last, and its value went
\* to the terminal callback together with the keys that did not collide
C26_Witness ==
    /\ StageCount = 3
    /\ StageEnded(2)
    /\ sequence[3].isArray
    /\ "shared" \in StageKeys(2)
    /\ "k1" \in StageKeys(2)
    /\ "k2" \in StageKeys(2)
    /\ calls[lastWriter["shared"]].stage = 2
    /\ LastArrived("shared") = 1
    /\ Len(callbackLog) = 1
    /\ callbackLog[1].data["shared"] = 1
    /\ callbackLog[1].data["k2"] = 2

\* the errors of the first n tasks of stage s accumulated in declared order
RECURSIVE DeclaredErrUpTo(_, _)
DeclaredErrUpTo(s, n) ==
    IF n = 0
    THEN IF s = 0 THEN Undefined
         ELSE DeclaredErrUpTo(s - 1, Len(sequence[s].tasks))
    ELSE AccumulateErr(DeclaredErrUpTo(s, n - 1), Task(s, n).err)

DeclaredErr == DeclaredErrUpTo(StageCount - 1, Len(sequence[StageCount].tasks))

\* C28: when every task of a run completes synchronously, merge order equals
\* declared dispatch order (on a key collision within a group the value of
\* the later-declared task wins), so the terminal (error, data) is a function
\* of the configuration alone: two runs of it deliver identical values.
SynchronousRunsAreDeterministic ==
    (allSync /\ terminatedAt < 0) =>
        /\ Len(callbackLog) <= 1
        /\ \A n \in 1..Len(callbackLog) :
              /\ callbackLog[n].data = DeclaredMerge(StageCount - 1)
              /\ callbackLog[n].err = DeclaredErr
        /\ \A i \in 1..Len(calls) :
              calls[i].stage >= 1 =>
                 LET previous == DeclaredMerge(calls[i].stage - 1)
                 IN \A k \in DOMAIN previous : calls[i].opts[k] = previous[k]

\* a synchronous run of funcErr1, [funcErr2, funcSeq], [funcK1, funcK2] has
\* delivered both errors in declared order and the later-declared value
C28_Witness ==
    /\ allSync
    /\ terminatedAt < 0
    /\ StageCount = 3
    /\ sequence[3].isArray
    /\ Len(callbackLog) = 1
    /\ callbackLog[1].err = Str("undefined e1 e2")
    /\ "shared" \in DOMAIN callbackLog[1].data
    /\ callbackLog[1].data["shared"] = 2
    /\ "k1" \in DOMAIN callbackLog[1].data

\* C30: in the context of every dispatched task the entry named sequence
\* refers to the Sequencer itself, whatever keys the initial arguments or
\* the previous stage's results contain (including a key named sequence).
BackReferenceAlwaysAvailable ==
    \A i \in 1..Len(calls) :
        /\ "sequence" \in DOMAIN calls[i].opts
        /\ calls[i].opts["sequence"] = SequencerRef

\* C31: all tasks of a parallel group are invoked with the same context
\* snapshot, fixed before the first dispatch, and all M tasks of the group
\* are dispatched, in declared order and without waiting for any completion,
\* also when an earlier sibling completes synchronously or calls terminate()
\* during the dispatch loop.
GroupSharesSnapshotAndIsFullyDispatched ==
    /\ \A i, j \in 1..Len(calls) :
          calls[i].stage = calls[j].stage => calls[i].opts = calls[j].opts
    /\ \A i \in 1..Len(calls) :
          \A k \in DOMAIN calls[i].opts :
             k = "sequence" \/ (calls[i].stage >= 1 /\ k \in StageKeys(calls[i].stage - 1))
    /\ \A i, j \in 1..Len(calls) :
          (calls[i].stage = calls[j].stage /\ i < j) => calls[i].fIdx < calls[j].fIdx
    /\ \A s \in 0..(StageCount - 1) :
          (Invoked(s, 1) /\ \A j \in 1..Len(stack) : stack[j].stage # s) =>
             \A f \in StageTasks(s) : Invoked(s, f)
    /\ \A j \in 1..Len(stack) :
          \A f \in 1..(stack[j].next - 1) : Invoked(stack[j].stage, f)

\* the first task of a group that is not the last stage called terminate()
\* in its body and completed there; its sibling was dispatched all the same
C31_Witness ==
    /\ allSync
    /\ terminatedBy >= 1
    /\ calls[terminatedBy].fIdx = 1
    /\ calls[terminatedBy].stage + 1 < StageCount
    /\ sequence[calls[terminatedBy].stage + 1].isArray
    /\ completions[terminatedBy] = 1
    /\ Invoked(calls[terminatedBy].stage, 2)
    /\ DOMAIN Task(calls[terminatedBy].stage, 1).data # {}

\* the tasks of the run that have reported an error
ErrorCalls == {c \in CompletedCalls : Task(calls[c].stage, calls[c].fIdx).err # ""}

\* C32: when exactly one task of a run reports an error e and all other
\* tasks report none, the error passed to the terminal callback equals e.
SingleErrorDeliveredAsReported ==
    \A n \in 1..Len(callbackLog) :
        \A c \in ErrorCalls :
            ErrorCalls = {c} =>
                callbackLog[n].err = Str(Task(calls[c].stage, calls[c].fIdx).err)

\* C33: validation order at construction is terminal-handler check, then
\* stage-list check, then initialArgs check: with a non-callable handler and
\* a malformed stage list the outcome is the raised fatal error; with a
\* malformed stage list and malformed initialArgs (and no non-callable
\* handler) the one recorded error is the stage-list error.
ValidationOrder ==
    (constructed /\ config.form \in {"object", "positional"} /\ ~config.extra
        /\ config.seq \in {"absent", "number"}) =>
        /\ config.cb = "object" => (thrown /\ startupErrorText = "")
        /\ (config.cb # "object" /\ config.args = "array") =>
              (~thrown /\ startupErrorText = InvalidSequence)

\* the keys the for-in loop enumerates in results that are no plain mappings
NonMappingKeys ==
    UNION {DOMAIN Task(s, f).data :
             <<s, f>> \in {<<s2, f2>> \in (0..(StageCount - 1)) \X (1..MaxGroup + 1) :
                              /\ f2 \in StageTasks(s2)
                              /\ ResultType(Task(s2, f2)) # "mapping"}}

\* C34: when a task completes with a result that is not a plain key/value
\* mapping (an array, a number), nothing is merged: none of it reaches
\* pendingData, a later context or the terminal data; no fault is raised,
\* and the completion still counts toward the stage's fan-in.
NonMappingResultNotMerged ==
    /\ fault => terminatedAt = 0
    /\ DOMAIN pendingData \cap NonMappingKeys = {}
    /\ \A i \in 1..Len(calls) : (DOMAIN calls[i].opts) \cap NonMappingKeys = {}
    /\ \A n \in 1..Len(callbackLog) : (DOMAIN callbackLog[n].data) \cap NonMappingKeys = {}
    /\ \A s \in 0..(StageCount - 1) :
          (StageEnded(s) /\ terminatedAt < 0) =>
             IF s + 1 < StageCount THEN NextStarted(s) ELSE Len(callbackLog) = 1

\* C35: the stage index never decreases and always stays within 0..N for a
\* stage list of length N; once terminate() has been called it equals N in
\* every later state, whatever completions arrive.
StageIndexMonotoneAndBounded ==
    /\ [](/\ currentSequenceIdx \in 0..StageCount
          /\ terminatedAt >= 0 => currentSequenceIdx = StageCount)
    /\ [][currentSequenceIdx' >= currentSequenceIdx]_vars

\* terminate() was called while the first of two stages was in progress,
\* and its task has completed twice since
C35_Witness ==
    /\ StageCount = 2
    /\ terminatedAt = 1
    /\ terminatedStage = 0
    /\ terminatedBy = 0
    /\ NumCompleted(0) >= 1
    /\ ExtraCompletions >= 1
    /\ currentSequenceIdx = 2

\* the stage dispatched last
LatestStage ==
    LET dispatched == {calls[i].stage : i \in 1..Len(calls)}
                      \cup {stack[j].stage : j \in 1..Len(stack)}
    IN CHOOSE s \in dispatched : \A r \in dispatched : r <= s

\* what `if (this.concurrentFunctions) this.concurrentFunctions--` leaves
Decremented == IF concurrentFunctions > 0 THEN concurrentFunctions - 1 ELSE 0

\* the counter after processNextSequenceFunction has run for stage s
AtDispatch(s, before) ==
    IF sequence[s + 1].isArray THEN Len(sequence[s + 1].tasks) ELSE before

\* C36: the fan-in counter is never negative in any reachable state, also
\* when more completions arrive than tasks were dispatched; for a parallel
\* group of M tasks it is M at dispatch and is decremented by exactly one per
\* completion down to 0.
FanInCounterFloorAndStep ==
    /\ [](/\ concurrentFunctions >= 0
          /\ (ExtraCompletions = 0 /\ (stack # <<>> \/ calls # <<>>)
                 /\ sequence[LatestStage + 1].isArray) =>
                concurrentFunctions =
                    Len(sequence[LatestStage + 1].tasks) - NumCompleted(LatestStage))
    /\ [][/\ (~started /\ started' /\ ~fault') =>
               concurrentFunctions' = AtDispatch(0, concurrentFunctions)
          /\ (completions' # completions /\ Len(completions') = Len(completions)) =>
               IF currentSequenceIdx' = currentSequenceIdx + 1
               THEN /\ Decremented = 0
                    /\ concurrentFunctions' = AtDispatch(currentSequenceIdx', 0)
               ELSE concurrentFunctions' = Decremented]_vars

\* the tasks of a group of MaxGroup tasks have completed more often than
\* they were dispatched, and the counter stands at 0
C36_Witness ==
    /\ StageCount = 1
    /\ sequence[1].isArray
    /\ StageEnded(0)
    /\ ExtraCompletions = MaxExtraCompletions
    /\ concurrentFunctions = 0

\* C37: terminate() changes only the stage index: it leaves pendingData, the
\* accumulated error, the fan-in counter and the configuration unchanged,
\* dispatches no task and does not itself invoke the terminal callback.
\* (The step of the first terminate() is the one that records terminatedAt;
\* a repeated terminate() finds the index at N and changes nothing.)
TerminateChangesOnlyTheIndex ==
    [][(terminatedAt < 0 /\ terminatedAt' >= 0) =>
         /\ currentSequenceIdx' = StageCount
         /\ UNCHANGED <<pendingData, pendingErr, concurrentFunctions, sequence,
                        args, callback, stack, calls, completions, callbackLog,
                        fault, started>>]_vars

\* terminate() was called from outside while a group was outstanding with a
\* result merged, an error accumulated and the counter above 0
C37_Witness ==
    /\ terminatedAt >= 2
    /\ terminatedBy = 0
    /\ currentSequenceIdx = StageCount
    /\ terminatedStage + 1 < StageCount
    /\ NumCompleted(terminatedStage) = 1
    /\ pendingData # EmptyMap
    /\ Truthy(pendingErr)
    /\ concurrentFunctions >= 1
    /\ callbackLog = <<>>

\* C38: once a configuration is accepted, no Sequencer operation (go,
\* processing a completion, terminate) changes the stage list, the terminal
\* callback or the contents of the initialArgs mapping: each stage's context
\* is a fresh mapping, and merging results never writes into initialArgs.
ConfigurationNeverWritten == [][UNCHANGED <<sequence, args, callback>>]_vars

\* a run with initialArgs {sequence: 5} has ended after a stage received the
\* value 9 for that key from the results of the stage before it
C38_Witness ==
    /\ args = SequenceArgs
    /\ Len(callbackLog) = 1
    /\ terminatedAt < 0
    /\ \E i \in 1..Len(calls) : calls[i].stage >= 1 /\ calls[i].opts["sequence"] = 9

====
